---------------------------- MODULE Spec2Model ----------------------------
(***************************************************************************)
(* Zone climate entities of custom_components/aquarea/climate.py.          *)
(*                                                                         *)
(* Two HeishaMonZoneClimate entities (zone 1 and zone 2) are created by    *)
(* async_setup_entry.  Each keeps its OWN cached _zone_state,              *)
(* _operating_mode and _attr_hvac_mode.  MQTT status callbacks run to      *)
(* completion on the event loop; async_set_hvac_mode is a coroutine that   *)
(* is suspended at each "await async_publish(...)", where any other        *)
(* callback or coroutine of the event loop may run.                        *)
(*                                                                         *)
(* Strings (MQTT payloads) are sequences of one-character strings.         *)
(*                                                                         *)
(* Four specifications share the definitions:                              *)
(*   Spec           the on/off side: status messages of any payload and    *)
(*                  async_set_hvac_mode requests of the two entities;      *)
(*   PolicySpec     the setpoint side: mode_received and                   *)
(*                  async_set_temperature (temperatures are integers);     *)
(*   CodecSpec      ZoneState.from_id / from_mqtt / to_mqtt on one input;  *)
(*   ApplianceSpec  the on/off side with a heat pump that applies the      *)
(*                  published commands and broadcasts its state.           *)
(***************************************************************************)
EXTENDS Integers, Sequences, FiniteSets, TLC

VARIABLES
    zone_state,       \* [zone -> ZoneState flag set]   self._zone_state
    operating_mode,   \* [zone -> OperatingMode flags]  self._operating_mode
    hvac_mode,        \* [zone -> HEAT | OFF]           self._attr_hvac_mode
    pc,               \* [zone -> position of async_set_hvac_mode]
    new_zone_state,   \* [zone -> local new_zone_state of the running call]
    new_operating_mode, \* [zone -> local new_operating_mode of the call]
    requested,        \* [zone -> hvac_mode argument of the running call]
    latest,           \* [command topic -> payload handed over last]
    call,             \* [zone -> the call that runs or has returned, kept
                      \*  until the next status message reaches the zone]
    last,             \* the handler step taken last
    ncalls,           \* number of async_set_hvac_mode calls so far
    nstatus           \* number of status messages applied so far

vars == <<zone_state, operating_mode, hvac_mode, pc, new_zone_state,
          new_operating_mode, requested, latest, call, last,
          ncalls, nstatus>>

\* the setpoint side of the entities
VARIABLES
    mode,             \* [zone -> COMPENSATION | DIRECT]  self._mode
    min_temp,         \* [zone -> number]                 self._attr_min_temp
    max_temp,         \* [zone -> number]                 self._attr_max_temp
    target_temperature_step, \* [zone -> number]  self._attr_target_temperature_step
    set_temperature   \* the async_set_temperature call made last

policy_vars == <<mode, min_temp, max_temp, target_temperature_step,
                 set_temperature>>

\* ZoneState.from_mqtt / to_mqtt applied to one input
VARIABLES
    codec             \* the input, what it decodes to, what that encodes to

\* the heat pump at the other end of the transport
VARIABLES
    appliance,        \* whether it has started, its zones and its modes
    queue,            \* the commands published and not yet applied by it
    confirm           \* the request made last and the broadcasts that followed

appliance_vars == <<appliance, queue, confirm>>

all_vars == <<vars, policy_vars, codec, appliance_vars>>

-----------------------------------------------------------------------------
(* Bounds of the model.                                                    *)

\* status messages delivered plus async_set_hvac_mode calls in one behaviour
MaxEvents == 4

\* characters of a payload handed to ZoneState.from_mqtt
MaxPayloadLen == 3

-----------------------------------------------------------------------------
(* ZoneState(Flag): ZONE1, ZONE2.  A flag value is the set of its members. *)

ZONE1 == 1
ZONE2 == 2
Zones == {ZONE1, ZONE2}
ZoneState == SUBSET Zones

\* zone ids handed to the entities by async_setup_entry
ZoneIds == {1, 2}

\* A Python call either returns a value or raises: err is "" on return.
KeyError == "KeyError"
ValueError == "ValueError"
Return(v) == [err |-> "", val |-> v]
Raise(e, v) == [err |-> e, val |-> v]

\* the entities are only built with zone_id 1 and 2, so from_id never raises
from_id(id) == IF id = 1 THEN {ZONE1} ELSE {ZONE2}

\* str(n) of an integer: its decimal digits, "-" first when negative
DecimalDigits == <<"0", "1", "2", "3", "4", "5", "6", "7", "8", "9">>

RECURSIVE NatStr(_)
NatStr(n) ==
    IF n < 10 THEN <<DecimalDigits[n + 1]>>
    ELSE Append(NatStr(n \div 10), DecimalDigits[(n % 10) + 1])

str(n) == IF n < 0 THEN <<"-">> \o NatStr(0 - n) ELSE NatStr(n)

\* to_mqtt gone wrong: the flag's value instead of the wire map
to_mqtt_flag_value(zs) ==
    CASE zs = {ZONE1} -> Return(str(1))
      [] zs = {ZONE2} -> Return(str(2))
      [] zs = {ZONE1, ZONE2} -> Return(str(3))
      [] OTHER -> Raise(KeyError, <<>>)

to_mqtt(zs) ==
    CASE zs = {ZONE1} -> Return(str(0))
      [] zs = {ZONE2} -> Return(str(1))
      [] zs = {ZONE1, ZONE2} -> Return(str(2))
      [] OTHER -> Raise(KeyError, <<>>)

(* Python's int(str): surrounding whitespace is stripped, an optional sign *)
(* is followed by one or more decimal digits.                              *)
Digits == {"0", "1", "2", "3"}

DigitVal(c) == CASE c = "0" -> 0 [] c = "1" -> 1 [] c = "2" -> 2 [] c = "3" -> 3

RECURSIVE lstrip(_)
lstrip(s) == IF s # <<>> /\ Head(s) = " " THEN lstrip(Tail(s)) ELSE s

RECURSIVE rstrip(_)
rstrip(s) ==
    IF s # <<>> /\ s[Len(s)] = " " THEN rstrip(SubSeq(s, 1, Len(s) - 1)) ELSE s

strip(s) == rstrip(lstrip(s))

RECURSIVE Decimal(_)
Decimal(s) ==
    IF s = <<>> THEN 0
    ELSE 10 * Decimal(SubSeq(s, 1, Len(s) - 1)) + DigitVal(s[Len(s)])

int(value) ==
    LET s == strip(value)
        signed == s # <<>> /\ Head(s) \in {"-", "+"}
        body == IF signed THEN Tail(s) ELSE s
    IN  IF body = <<>> \/ \E i \in 1..Len(body) : body[i] \notin Digits
        THEN Raise(ValueError, 0)
        ELSE IF Head(s) = "-" THEN Return(0 - Decimal(body))
        ELSE Return(Decimal(body))

\* from_mqtt gone wrong: a number outside the map falls back to both zones
from_mqtt_with_default(value) ==
    LET n == int(value)
    IN  CASE n.err # "" -> Raise(n.err, {})
          [] n.err = "" /\ n.val = 0 -> Return({ZONE1})
          [] n.err = "" /\ n.val = 1 -> Return({ZONE2})
          [] OTHER -> Return({ZONE1, ZONE2})

\* from_mqtt gone wrong: the flag built from the number, ZoneState(int(value))
from_mqtt_flag_constructor(value) ==
    LET n == int(value)
    IN  CASE n.err # "" -> Raise(n.err, {})
          [] n.err = "" /\ n.val = 0 -> Return({})
          [] n.err = "" /\ n.val = 1 -> Return({ZONE1})
          [] n.err = "" /\ n.val = 2 -> Return({ZONE2})
          [] n.err = "" /\ n.val = 3 -> Return({ZONE1, ZONE2})
          [] OTHER -> Raise(ValueError, {})

\* from_mqtt gone wrong: a number outside the map gives ZoneState(0)
from_mqtt_empty_on_unknown(value) ==
    LET n == int(value)
    IN  CASE n.err # "" -> Raise(n.err, {})
          [] n.err = "" /\ n.val = 0 -> Return({ZONE1})
          [] n.err = "" /\ n.val = 1 -> Return({ZONE2})
          [] n.err = "" /\ n.val = 2 -> Return({ZONE1, ZONE2})
          [] OTHER -> Return({})

from_mqtt(value) ==
    LET n == int(value)
    IN  CASE n.err # "" -> Raise(n.err, {})
          [] n.err = "" /\ n.val = 0 -> Return({ZONE1})
          [] n.err = "" /\ n.val = 1 -> Return({ZONE2})
          [] n.err = "" /\ n.val = 2 -> Return({ZONE1, ZONE2})
          [] OTHER -> Raise(KeyError, {})

-----------------------------------------------------------------------------
(* OperatingMode(Flag) of .definitions: a flag set holding at least HEAT,  *)
(* with a wire codec that round-trips ("0" = nothing enabled, "1" = HEAT). *)

HEAT_FLAG == "HEAT"
DHW_FLAG == "DHW"
Modes == {HEAT_FLAG, DHW_FLAG}
OperatingMode == SUBSET Modes

OperatingMode_to_mqtt(om) ==
    Return(str((IF HEAT_FLAG \in om THEN 1 ELSE 0)
               + (IF DHW_FLAG \in om THEN 2 ELSE 0)))

OperatingMode_from_mqtt(value) ==
    IF \E om \in OperatingMode : OperatingMode_to_mqtt(om).val = value
    THEN Return(CHOOSE om \in OperatingMode : OperatingMode_to_mqtt(om).val = value)
    ELSE Raise(KeyError, {})

-----------------------------------------------------------------------------
(* HVACMode values and MQTT topics.                                        *)

HEAT == "heat"
OFF == "off"
\* _attr_hvac_modes: the modes a caller may pass to async_set_hvac_mode
HVACModes == {HEAT, OFF}

Zones_State == "main/Zones_State"
Operating_Mode_State == "main/Operating_Mode_State"
StatusTopics == {Zones_State, Operating_Mode_State}

SetOperationMode == "commands/SetOperationMode"
SetZones == "commands/SetZones"
CommandTopics == {SetOperationMode, SetZones}

\* payloads a status message may carry: the wire values, a value outside
\* the map, a padded value, a non-number and the empty string
Payloads == {<<"0">>, <<"1">>, <<"2">>, <<"3">>, <<" ", "1">>, <<"x">>, <<>>}

-----------------------------------------------------------------------------
(* guess_hvac_mode and the computation at the head of async_set_hvac_mode. *)

\* guess_hvac_mode gone wrong: the zone alone decides, HEAT is not looked at
guess_hvac_mode_zone_only(om, zs, id) ==
    IF from_id(id) \subseteq zs THEN HEAT ELSE OFF

guess_hvac_mode(om, zs, id) ==
    LET global_heating == HEAT_FLAG \in om
        zone_heating == from_id(id) \subseteq zs
    IN  IF global_heating /\ zone_heating THEN HEAT ELSE OFF

\* new_zone_state of async_set_hvac_mode (hvac is HEAT or OFF)
compute_new_zone_state(zs, id, hvac) ==
    IF hvac = HEAT THEN zs \cup from_id(id) ELSE zs \ from_id(id)

\* compute_new_operating_mode gone wrong: the last zone going off clears every
\* mode instead of HEAT alone
compute_new_operating_mode_clearing(om, zs, id, hvac) ==
    IF hvac = HEAT THEN om \cup {HEAT_FLAG}
    ELSE IF compute_new_zone_state(zs, id, hvac) = {} THEN {}
    ELSE om

\* new_operating_mode of async_set_hvac_mode (hvac is HEAT or OFF)
compute_new_operating_mode(om, zs, id, hvac) ==
    IF hvac = HEAT THEN om \cup {HEAT_FLAG}
    ELSE IF compute_new_zone_state(zs, id, hvac) = {} THEN om \ {HEAT_FLAG}
    ELSE om

\* "if new_operating_mode != self._operating_mode"
operating_mode_differs(new_om, om) == new_om # om

\* zone_state_differs gone wrong: the empty set is not excluded
zone_state_differs_from_cached(new_zs, zs) == new_zs # zs

\* "if new_zone_state not in [self._zone_state, ZoneState(0)]"
zone_state_differs(new_zs, zs) == new_zs \notin {zs, {}}

\* optimistic_hvac_mode gone wrong: the optimistic write precedes the publishes
optimistic_hvac_mode_before_publish(handed_over, cur, hvac) == hvac

\* _attr_hvac_mode after the publishes of a call: line 286 runs only when no
\* await async_publish raised
optimistic_hvac_mode(handed_over, cur, hvac) == IF handed_over THEN hvac ELSE cur

OperationModeCommand(om) ==
    [topic |-> SetOperationMode, zones |-> {}, modes |-> om,
     payload |-> OperatingMode_to_mqtt(om).val]

ZonesCommand(zs) ==
    [topic |-> SetZones, zones |-> zs, modes |-> {}, payload |-> to_mqtt(zs).val]

-----------------------------------------------------------------------------
(* The records of the calls and of the steps.                              *)

NoCall ==
    [req |-> OFF, zs0 |-> {}, om0 |-> {},
     cmds |-> <<>>, result |-> "none", zs_pub |-> {}, mid |-> FALSE,
     seen |-> FALSE, repeat |-> FALSE]

\* what the step taken last did: the status message it handled (topic "" for
\* a step of a request), whether it raised an exception, whether it called
\* async_write_ha_state (wrote), how its async_publish ended (publish)
Step(topic, payload, raised, wrote, publish) ==
    [topic |-> topic, payload |-> payload, raised |-> raised, wrote |-> wrote,
     publish |-> publish]

NoStep == Step("", <<>>, FALSE, FALSE, "none")

-----------------------------------------------------------------------------
(* ZoneClimateMode, change_mode, mode_received and async_set_temperature.  *)

COMPENSATION == "COMPENSATION"
DIRECT == "DIRECT"
ZoneClimateMode == {COMPENSATION, DIRECT}

Heating_Mode == "main/Heating_Mode"

SetHeatRequestTemperature(id) ==
    IF id = 1 THEN "commands/SetZ1HeatRequestTemperature"
    ELSE "commands/SetZ2HeatRequestTemperature"

AssertionError == "AssertionError"

\* temperatures a caller may pass to async_set_temperature: the values on
\* both sides of each bound of the two modes
Temperatures == {-6, -5, 5, 6, 14, 15, 45, 46}

\* change_mode gone wrong: the bounds of DIRECT whatever the mode
change_mode_direct_bounds(m, initialization) ==
    [mode |-> m, min_temp |-> 15, max_temp |-> 45,
     target_temperature_step |-> 1, wrote |-> ~initialization]

\* the attributes change_mode sets, and whether it calls async_write_ha_state
change_mode(m, initialization) ==
    IF m = COMPENSATION
    THEN [mode |-> m, min_temp |-> -5, max_temp |-> 5,
          target_temperature_step |-> 1, wrote |-> ~initialization]
    ELSE [mode |-> m, min_temp |-> 15, max_temp |-> 45,
          target_temperature_step |-> 1, wrote |-> ~initialization]

\* "if message.payload == ... else: assert False"
mode_of_payload(payload) ==
    CASE payload = <<"0">> -> Return(COMPENSATION)
      [] payload = <<"1">> -> Return(DIRECT)
      [] OTHER -> Raise(AssertionError, DIRECT)

\* "if mode != self._mode": whether mode_received calls change_mode
mode_differs(m, cur) == m # cur

NoTemperatureCall ==
    [zone |-> 0, temperature |-> 0, mode |-> DIRECT, result |-> "none",
     topic |-> "", payload |-> <<>>]

PolicyInit ==
    LET attrs == change_mode(DIRECT, TRUE)
    IN  /\ mode = [e \in ZoneIds |-> attrs.mode]
        /\ min_temp = [e \in ZoneIds |-> attrs.min_temp]
        /\ max_temp = [e \in ZoneIds |-> attrs.max_temp]
        /\ target_temperature_step =
               [e \in ZoneIds |-> attrs.target_temperature_step]
        /\ set_temperature = NoTemperatureCall

\* the callback of main/Heating_Mode
mode_received(e, payload) ==
    LET m == mode_of_payload(payload)
        attrs == change_mode(m.val, FALSE)
    IN  /\ IF m.err # ""
           THEN /\ UNCHANGED <<mode, min_temp, max_temp, target_temperature_step>>
                /\ last' = Step(Heating_Mode, payload, TRUE, FALSE, "none")
           ELSE IF mode_differs(m.val, mode[e])
           THEN /\ mode' = [mode EXCEPT ![e] = attrs.mode]
                /\ min_temp' = [min_temp EXCEPT ![e] = attrs.min_temp]
                /\ max_temp' = [max_temp EXCEPT ![e] = attrs.max_temp]
                /\ target_temperature_step' =
                       [target_temperature_step EXCEPT
                          ![e] = attrs.target_temperature_step]
                /\ last' = Step(Heating_Mode, payload, FALSE, attrs.wrote, "none")
           ELSE /\ UNCHANGED <<mode, min_temp, max_temp, target_temperature_step>>
                /\ last' = Step(Heating_Mode, payload, FALSE, FALSE, "none")
        /\ UNCHANGED set_temperature

\* async_set_temperature(temperature=...); ok: whether async_publish hands
\* the command over
async_set_temperature(e, temperature, ok) ==
    /\ mode[e] \in ZoneClimateMode
    /\ set_temperature' =
           [zone |-> e, temperature |-> temperature, mode |-> mode[e],
            result |-> IF ok THEN "ok" ELSE "raised",
            topic |-> IF ok THEN SetHeatRequestTemperature(e) ELSE "",
            payload |-> IF ok THEN str(temperature) ELSE <<>>]
    /\ last' = Step("", <<>>, ~ok, FALSE, IF ok THEN "ok" ELSE "failed")
    /\ UNCHANGED <<mode, min_temp, max_temp, target_temperature_step>>

-----------------------------------------------------------------------------
(* ZoneState.from_id, from_mqtt and to_mqtt applied to one input.          *)

\* characters of the payloads: digits, a digit outside the wire values,
\* white space, the signs and a letter
PayloadAlphabet == {"0", "1", "2", "3", " ", "-", "+", "x"}

AllPayloads == UNION {[1..k -> PayloadAlphabet] : k \in 0..MaxPayloadLen}

NoCodec ==
    [stage |-> "idle", via |-> "", value |-> <<>>, ids |-> {},
     zones |-> Return({}), wire |-> Return(<<>>)]

\* ZoneState.from_mqtt(value)
decode(value) ==
    /\ codec.stage = "idle"
    /\ codec' = [stage |-> "decoded", via |-> "wire", value |-> value,
                 ids |-> {}, zones |-> from_mqtt(value), wire |-> Return(<<>>)]

\* the union of ZoneState.from_id(id) over ids
build(ids) ==
    /\ codec.stage = "idle"
    /\ codec' = [stage |-> "decoded", via |-> "ids", value |-> <<>>, ids |-> ids,
                 zones |-> Return(UNION {from_id(id) : id \in ids}),
                 wire |-> Return(<<>>)]

\* to_mqtt() of the flag decoded or built
encode ==
    /\ codec.stage = "decoded"
    /\ codec.zones.err = ""
    /\ codec' = [codec EXCEPT !.stage = "encoded",
                              !.wire = to_mqtt(codec.zones.val)]

-----------------------------------------------------------------------------
(* The heat pump before it starts, and no request to confirm.              *)

NotStarted == [on |-> FALSE, zones |-> {}, modes |-> {}]

NoRequest == [zone |-> 0, value |-> OFF, heard |-> {}, done |-> FALSE]

-----------------------------------------------------------------------------
(* The state after __init__ of the two entities.                           *)

Init ==
    /\ zone_state = [e \in ZoneIds |-> {}]
    /\ operating_mode = [e \in ZoneIds |-> {}]
    /\ hvac_mode = [e \in ZoneIds |-> OFF]
    /\ pc = [e \in ZoneIds |-> "idle"]
    /\ new_zone_state = [e \in ZoneIds |-> {}]
    /\ new_operating_mode = [e \in ZoneIds |-> {}]
    /\ requested = [e \in ZoneIds |-> OFF]
    /\ latest = [t \in CommandTopics |-> <<>>]
    /\ call = [e \in ZoneIds |-> NoCall]
    /\ last = NoStep
    /\ ncalls = 0
    /\ nstatus = 0
    /\ PolicyInit
    /\ codec = NoCodec
    /\ appliance = NotStarted
    /\ queue = <<>>
    /\ confirm = NoRequest

-----------------------------------------------------------------------------
(* heating_conf_message_received: the callback of both status topics.      *)

\* heating_conf_message_received gone wrong: a message of one topic also
\* puts the field of the other topic back to its initial empty value
heating_conf_message_received_resetting(e, topic, payload) ==
    LET decoded == IF topic = Zones_State THEN from_mqtt(payload)
                   ELSE OperatingMode_from_mqtt(payload)
        zs == IF topic = Zones_State THEN decoded.val ELSE {}
        om == IF topic = Operating_Mode_State THEN decoded.val ELSE {}
    IN  /\ ncalls + nstatus < MaxEvents
        /\ nstatus' = nstatus + 1
        /\ IF decoded.err # ""
           THEN /\ UNCHANGED <<zone_state, operating_mode, hvac_mode, call>>
                /\ last' = Step(topic, payload, TRUE, FALSE, "none")
           ELSE /\ zone_state' = [zone_state EXCEPT ![e] = zs]
                /\ operating_mode' = [operating_mode EXCEPT ![e] = om]
                /\ hvac_mode' = [hvac_mode EXCEPT ![e] = guess_hvac_mode(om, zs, e)]
                /\ call' = [call EXCEPT
                              ![e] = IF pc[e] = "idle" THEN NoCall
                                     ELSE [@ EXCEPT
                                             !.seen = TRUE,
                                             !.mid = @ \/ pc[e] = "await_om"]]
                /\ last' = Step(topic, payload, FALSE, TRUE, "none")
        /\ UNCHANGED <<pc, new_zone_state, new_operating_mode, requested,
                       latest, ncalls>>

heating_conf_message_received(e, topic, payload) ==
    LET decoded == IF topic = Zones_State THEN from_mqtt(payload)
                   ELSE OperatingMode_from_mqtt(payload)
        zs == IF topic = Zones_State THEN decoded.val ELSE zone_state[e]
        om == IF topic = Operating_Mode_State THEN decoded.val
              ELSE operating_mode[e]
    IN  /\ ncalls + nstatus < MaxEvents
        /\ nstatus' = nstatus + 1
        /\ IF decoded.err # ""
           THEN /\ UNCHANGED <<zone_state, operating_mode, hvac_mode, call>>
                /\ last' = Step(topic, payload, TRUE, FALSE, "none")
           ELSE /\ zone_state' = [zone_state EXCEPT ![e] = zs]
                /\ operating_mode' = [operating_mode EXCEPT ![e] = om]
                /\ hvac_mode' = [hvac_mode EXCEPT ![e] = guess_hvac_mode(om, zs, e)]
                /\ call' = [call EXCEPT
                              ![e] = IF pc[e] = "idle" THEN NoCall
                                     ELSE [@ EXCEPT
                                             !.seen = TRUE,
                                             !.mid = @ \/ pc[e] = "await_om"]]
                /\ last' = Step(topic, payload, FALSE, TRUE, "none")
        /\ UNCHANGED <<pc, new_zone_state, new_operating_mode, requested,
                       latest, ncalls>>

-----------------------------------------------------------------------------
(* async_set_hvac_mode, cut at its two "await async_publish(...)".         *)
(* async_publish hands the command to the transport or raises; the         *)
(* coroutine is then suspended until the event loop resumes it.            *)

\* the coroutine ends: by line 286-287 (handed_over) or by an exception
Leave(e, hvac, rec, handed_over, publish) ==
    /\ hvac_mode' = [hvac_mode EXCEPT
                       ![e] = optimistic_hvac_mode(handed_over, @, hvac)]
    /\ pc' = [pc EXCEPT ![e] = "idle"]
    /\ new_zone_state' = [new_zone_state EXCEPT ![e] = {}]
    /\ new_operating_mode' = [new_operating_mode EXCEPT ![e] = {}]
    /\ requested' = [requested EXCEPT ![e] = OFF]
    /\ call' = [call EXCEPT
                  ![e] = [rec EXCEPT !.result = IF handed_over THEN "ok"
                                                ELSE "raised"]]
    /\ last' = Step("", <<>>, ~handed_over, handed_over, publish)
    /\ UNCHANGED latest

\* async_publish handed cmd over; the coroutine waits at the await
Await(e, hvac, new_zs, new_om, rec, cmd, at) ==
    /\ latest' = [latest EXCEPT ![cmd.topic] = cmd.payload]
    /\ pc' = [pc EXCEPT ![e] = at]
    /\ new_zone_state' = [new_zone_state EXCEPT ![e] = new_zs]
    /\ new_operating_mode' = [new_operating_mode EXCEPT ![e] = new_om]
    /\ requested' = [requested EXCEPT ![e] = hvac]
    /\ call' = [call EXCEPT ![e] = [rec EXCEPT !.cmds = Append(@, cmd)]]
    /\ last' = Step("", <<>>, FALSE, FALSE, "ok")
    /\ UNCHANGED hvac_mode

\* lines 262-287 from the test `line` on, up to the next await or the end;
\* ok: whether the async_publish reached in this step hands its command over
Continue(e, line, hvac, new_zs, new_om, rec, ok) ==
    IF line = 262 /\ operating_mode_differs(new_om, operating_mode[e])
    THEN IF ok
         THEN Await(e, hvac, new_zs, new_om, rec,
                    OperationModeCommand(new_om), "await_om")
         ELSE Leave(e, hvac, rec, FALSE, "failed")
    ELSE IF line <= 274 /\ zone_state_differs(new_zs, zone_state[e])
    THEN IF ok
         THEN Await(e, hvac, new_zs, new_om,
                    [rec EXCEPT !.zs_pub = zone_state[e]],
                    ZonesCommand(new_zs), "await_zs")
         ELSE Leave(e, hvac, rec, FALSE, "failed")
    ELSE Leave(e, hvac, rec, TRUE, "none")

\* async_set_hvac_mode gone wrong: the computed fields are written to the
\* cached ones
async_set_hvac_mode_updating_cache(e, hvac, ok) ==
    LET rec == [req |-> hvac, zs0 |-> zone_state[e],
                om0 |-> operating_mode[e],
                cmds |-> <<>>, result |-> "running", zs_pub |-> {},
                mid |-> FALSE, seen |-> FALSE,
                repeat |-> /\ hvac = HEAT
                           /\ call[e].req = HEAT
                           /\ call[e].result = "ok"
                           /\ ~call[e].seen]
        new_zs == compute_new_zone_state(zone_state[e], e, hvac)
        new_om == compute_new_operating_mode(operating_mode[e],
                                             zone_state[e], e, hvac)
    IN  /\ pc[e] = "idle"
        /\ ncalls + nstatus < MaxEvents
        /\ ncalls' = ncalls + 1
        /\ Continue(e, 262, hvac, new_zs, new_om, rec, ok)
        /\ zone_state' = [zone_state EXCEPT ![e] = new_zs]
        /\ operating_mode' = [operating_mode EXCEPT ![e] = new_om]
        /\ UNCHANGED nstatus

\* the call, up to its first await
async_set_hvac_mode(e, hvac, ok) ==
    LET rec == [req |-> hvac, zs0 |-> zone_state[e],
                om0 |-> operating_mode[e],
                cmds |-> <<>>, result |-> "running", zs_pub |-> {},
                mid |-> FALSE, seen |-> FALSE,
                repeat |-> /\ hvac = HEAT
                           /\ call[e].req = HEAT
                           /\ call[e].result = "ok"
                           /\ ~call[e].seen]
    IN  /\ pc[e] = "idle"
        /\ ncalls + nstatus < MaxEvents
        /\ ncalls' = ncalls + 1
        /\ Continue(e, 262, hvac,
                    compute_new_zone_state(zone_state[e], e, hvac),
                    compute_new_operating_mode(operating_mode[e],
                                               zone_state[e], e, hvac),
                    rec, ok)
        /\ UNCHANGED <<zone_state, operating_mode, nstatus>>

\* the event loop resumes the coroutine after the SetOperationMode publish
resume_after_operation_mode(e, ok) ==
    /\ pc[e] = "await_om"
    /\ Continue(e, 274, requested[e], new_zone_state[e],
                new_operating_mode[e], call[e], ok)
    /\ UNCHANGED <<zone_state, operating_mode, ncalls, nstatus>>

\* the event loop resumes the coroutine after the SetZones publish
resume_after_zones(e) ==
    /\ pc[e] = "await_zs"
    /\ Continue(e, 286, requested[e], new_zone_state[e],
                new_operating_mode[e], call[e], TRUE)
    /\ UNCHANGED <<zone_state, operating_mode, ncalls, nstatus>>

-----------------------------------------------------------------------------
(* The two entities with the heat pump: it applies the commands in the     *)
(* order of their publication and broadcasts its state on the two status   *)
(* topics, to each entity.                                                 *)

\* the commands a step of the request of e hands to the transport
Published(e) ==
    IF last'.publish = "ok"
    THEN LET cmd == call'[e].cmds[Len(call'[e].cmds)]
         IN  <<[topic |-> cmd.topic, payload |-> cmd.payload]>>
    ELSE <<>>

\* the heat pump starts with some zones and modes
appliance_started(zs, om) ==
    /\ ~appliance.on
    /\ appliance' = [on |-> TRUE, zones |-> zs, modes |-> om]
    /\ UNCHANGED <<queue, confirm>>

\* the heat pump applies the command published first
appliance_applies ==
    /\ queue # <<>>
    /\ appliance' =
           IF Head(queue).topic = SetZones
           THEN [appliance EXCEPT !.zones = from_mqtt(Head(queue).payload).val]
           ELSE [appliance EXCEPT
                   !.modes = OperatingMode_from_mqtt(Head(queue).payload).val]
    /\ queue' = Tail(queue)
    /\ UNCHANGED confirm

\* a broadcast of the heat pump on topic reaches entity e
appliance_broadcast(e, topic) ==
    /\ appliance.on
    /\ heating_conf_message_received(
           e, topic,
           IF topic = Zones_State THEN to_mqtt(appliance.zones).val
           ELSE OperatingMode_to_mqtt(appliance.modes).val)
    /\ confirm' =
           IF /\ e = confirm.zone /\ confirm.done /\ queue = <<>>
              /\ \A z \in ZoneIds : pc[z] = "idle"
           THEN [confirm EXCEPT !.heard = @ \cup {topic}]
           ELSE confirm
    /\ UNCHANGED <<appliance, queue>>

\* async_set_hvac_mode of entity e begins
appliance_request(e, hvac, ok) ==
    /\ appliance.on
    /\ async_set_hvac_mode(e, hvac, ok)
    /\ queue' = queue \o Published(e)
    /\ confirm' = [zone |-> e, value |-> hvac, heard |-> {},
                   done |-> pc'[e] = "idle" /\ call'[e].result = "ok"]
    /\ UNCHANGED appliance

\* a later step of async_set_hvac_mode of entity e
appliance_resume(e, ok) ==
    /\ \/ resume_after_operation_mode(e, ok)
       \/ ok /\ resume_after_zones(e)
    /\ queue' = queue \o Published(e)
    /\ confirm' =
           IF e = confirm.zone
           THEN [confirm EXCEPT
                   !.heard = {},
                   !.done = pc'[e] = "idle" /\ call'[e].result = "ok"]
           ELSE [confirm EXCEPT !.heard = {}]
    /\ UNCHANGED appliance

-----------------------------------------------------------------------------
(* The on/off side of the two entities: status messages and requests.      *)

Next ==
    \/ \E e \in ZoneIds, topic \in StatusTopics, payload \in Payloads :
          heating_conf_message_received(e, topic, payload)
              /\ UNCHANGED <<policy_vars, codec, appliance_vars>>
    \/ \E e \in ZoneIds, hvac \in HVACModes, ok \in BOOLEAN :
          async_set_hvac_mode(e, hvac, ok) /\ UNCHANGED <<policy_vars, codec, appliance_vars>>
    \/ \E e \in ZoneIds, ok \in BOOLEAN :
          resume_after_operation_mode(e, ok) /\ UNCHANGED <<policy_vars, codec, appliance_vars>>
    \/ \E e \in ZoneIds : resume_after_zones(e) /\ UNCHANGED <<policy_vars, codec, appliance_vars>>

Spec == Init /\ [][Next]_all_vars

(* The setpoint side of the two entities: mode messages and setpoints.     *)
(* It shares no attribute with the on/off side.                            *)

climate_vars == <<zone_state, operating_mode, hvac_mode, pc, new_zone_state,
                  new_operating_mode, requested, latest, call, ncalls, nstatus>>

PolicyNext ==
    \/ \E e \in ZoneIds, payload \in Payloads :
          mode_received(e, payload) /\ UNCHANGED <<climate_vars, codec, appliance_vars>>
    \/ \E e \in ZoneIds, temperature \in Temperatures, ok \in BOOLEAN :
          async_set_temperature(e, temperature, ok) /\ UNCHANGED <<climate_vars, codec, appliance_vars>>

PolicySpec == Init /\ [][PolicyNext]_all_vars

(* The two entities with the heat pump.                                    *)

ApplianceNext ==
    \/ \E zs \in ZoneState \ {{}}, om \in OperatingMode :
          appliance_started(zs, om) /\ UNCHANGED <<vars, policy_vars, codec>>
    \/ appliance_applies /\ UNCHANGED <<vars, policy_vars, codec>>
    \/ \E e \in ZoneIds, topic \in StatusTopics :
          appliance_broadcast(e, topic) /\ UNCHANGED <<policy_vars, codec>>
    \/ \E e \in ZoneIds, hvac \in HVACModes, ok \in BOOLEAN :
          appliance_request(e, hvac, ok) /\ UNCHANGED <<policy_vars, codec>>
    \/ \E e \in ZoneIds, ok \in BOOLEAN :
          appliance_resume(e, ok) /\ UNCHANGED <<policy_vars, codec>>

ApplianceSpec == Init /\ [][ApplianceNext]_all_vars

(* The wire codec of ZoneState on its own.                                 *)

CodecNext ==
    \/ \E value \in AllPayloads : decode(value) /\ UNCHANGED <<vars, policy_vars, appliance_vars>>
    \/ \E ids \in SUBSET ZoneIds : build(ids) /\ UNCHANGED <<vars, policy_vars, appliance_vars>>
    \/ encode /\ UNCHANGED <<vars, policy_vars, appliance_vars>>

CodecSpec == Init /\ [][CodecNext]_all_vars

-----------------------------------------------------------------------------
(* Vocabulary of the properties.                                           *)

Other(e) == IF e = 1 THEN 2 ELSE 1

\* the derived on/off state: zone in the ZoneSet and Heat in the OperatingMode
DerivedOn(zs, om, z) == z \in zs /\ HEAT_FLAG \in om

Topics(cmds) == [i \in DOMAIN cmds |-> cmds[i].topic]

\* zs with only z's membership changed as the request asks
WithZone(zs, z, req) == IF req = HEAT THEN zs \cup {z} ELSE zs \ {z}

\* what the commands of a call leave on the appliance that held (zs0, om0)
EstablishedZones(c) ==
    IF \E i \in DOMAIN c.cmds : c.cmds[i].topic = SetZones
    THEN LET i == CHOOSE i \in DOMAIN c.cmds : c.cmds[i].topic = SetZones
         IN  from_mqtt(c.cmds[i].payload).val
    ELSE c.zs0

EstablishedModes(c) ==
    IF \E i \in DOMAIN c.cmds : c.cmds[i].topic = SetOperationMode
    THEN LET i == CHOOSE i \in DOMAIN c.cmds : c.cmds[i].topic = SetOperationMode
         IN  c.cmds[i].modes
    ELSE c.om0

\* a step of some async_set_hvac_mode coroutine
CoroutineStep == ncalls' # ncalls \/ pc' # pc

-----------------------------------------------------------------------------
(* C1: a call that publishes both commands publishes SetOperationMode      *)
(* before SetZones, and a request on made with Heat absent from the cached *)
(* OperatingMode and the cached ZoneSet empty publishes exactly those two. *)
C1_OperationModeThenZones ==
    \A e \in ZoneIds :
        LET c == call[e]
        IN  /\ \A i, j \in DOMAIN c.cmds :
                   (c.cmds[i].topic = SetOperationMode /\ c.cmds[j].topic = SetZones)
                       => i < j
            /\ (c.result = "ok" /\ c.req = HEAT /\ HEAT_FLAG \notin c.om0
                    /\ c.zs0 = {})
                   => Topics(c.cmds) = <<SetOperationMode, SetZones>>

(* C2: request off for z with the cached ZoneSet exactly {z} and Heat in   *)
(* the cached OperatingMode publishes one command, SetOperationMode with   *)
(* the cached OperatingMode less Heat, and never a SetZones command.       *)
C2_LastZoneOff ==
    \A e \in ZoneIds :
        LET c == call[e]
        IN  (c.result # "none" /\ c.req = OFF /\ c.zs0 = {e}
                 /\ HEAT_FLAG \in c.om0)
                => /\ \A i \in DOMAIN c.cmds : c.cmds[i].topic # SetZones
                   /\ c.result = "raised" => c.cmds = <<>>
                   /\ c.result # "raised" =>
                          /\ Topics(c.cmds) = <<SetOperationMode>>
                          /\ c.cmds[1].modes = c.om0 \ {HEAT_FLAG}

C2_Witness ==
    \E e \in ZoneIds :
        /\ call[e].result = "ok" /\ call[e].req = OFF
        /\ call[e].zs0 = {e} /\ call[e].om0 = {HEAT_FLAG, DHW_FLAG}
        /\ Len(call[e].cmds) = 1

(* C3: request off for z with both zones in the cached ZoneSet and Heat in *)
(* the cached OperatingMode publishes one command, SetZones naming the     *)
(* other zone ("1" for z = 1, "0" for z = 2), and no SetOperationMode.     *)
C3_MixedZoneOff ==
    \A e \in ZoneIds :
        LET c == call[e]
        IN  (c.result # "none" /\ c.req = OFF /\ c.zs0 = {1, 2}
                 /\ HEAT_FLAG \in c.om0)
                => /\ c.result = "raised" => c.cmds = <<>>
                   /\ c.result # "raised" =>
                          /\ Topics(c.cmds) = <<SetZones>>
                          /\ c.cmds[1].payload = IF e = 1 THEN <<"1">> ELSE <<"0">>

C3_Witness ==
    \E e \in ZoneIds :
        /\ call[e].result = "ok" /\ call[e].req = OFF
        /\ call[e].zs0 = {1, 2} /\ HEAT_FLAG \in call[e].om0
        /\ Len(call[e].cmds) = 1

(* C4: a second request on for the same zone, with no status message       *)
(* applied since the first one began, publishes no command.                *)
C4_SecondRequestOnPublishesNothing ==
    \A e \in ZoneIds : call[e].repeat => call[e].cmds = <<>>

(* C5: a request on for a zone whose derived state is on, and a request    *)
(* off for a zone whose derived state is off, publishes no command.        *)
C5_NoCommandOnMatchingState ==
    \A e \in ZoneIds :
        LET c == call[e]
        IN  (c.result # "none"
                 /\ (c.req = HEAT <=> DerivedOn(c.zs0, c.om0, e)))
                => c.cmds = <<>>

(* C6: no status message is applied to a zone between the read of its      *)
(* cached fields by a call and the SetZones publish of that call, so every *)
(* SetZones command is the ZoneSet cached when it is published with only   *)
(* the zone's own membership changed.                                      *)
C6_NoLostUpdate ==
    \A e \in ZoneIds :
        LET c == call[e]
        IN  \A i \in DOMAIN c.cmds :
                c.cmds[i].topic = SetZones
                    => /\ ~c.mid
                       /\ c.cmds[i].zones = WithZone(c.zs_pub, e, c.req)

(* C7: request on for zone 1 and for zone 2 with no status message at all: *)
(* the command enabling Heat is published at most once and the SetZones    *)
(* command published last names both zones ("2").                          *)
C7_BothZonesOn ==
    (nstatus = 0 /\ ncalls = 2
         /\ \A e \in ZoneIds : call[e].result = "ok" /\ call[e].req = HEAT)
        => /\ Cardinality({x \in ZoneIds \X (1..2) :
                              /\ x[2] \in DOMAIN call[x[1]].cmds
                              /\ call[x[1]].cmds[x[2]].topic = SetOperationMode
                              /\ HEAT_FLAG \in call[x[1]].cmds[x[2]].modes}) <= 1
           /\ latest[SetZones] = <<"2">>

(* C8: the derived state of the other zone under the values the commands   *)
(* of a request establish equals its derived state under the values cached *)
(* when the request was made.                                              *)
C8_OtherZoneUndisturbed ==
    \A e \in ZoneIds :
        LET c == call[e]
        IN  c.result # "none"
                => (DerivedOn(EstablishedZones(c), EstablishedModes(c), Other(e))
                        <=> DerivedOn(c.zs0, c.om0, Other(e)))

(* C9: a step of async_set_hvac_mode whose async_publish raises changes no *)
(* _attr_hvac_mode, writes no HA state and ends the call with the          *)
(* exception; a step of the coroutine writes _attr_hvac_mode or the HA     *)
(* state only when it ends the call with every publish handed over.        *)
C9_OptimisticAfterHandover ==
    [][CoroutineStep =>
          /\ last'.publish = "failed" =>
                 /\ hvac_mode' = hvac_mode
                 /\ ~last'.wrote
                 /\ last'.raised
                 /\ \E e \in ZoneIds :
                        /\ pc'[e] = "idle" /\ call'[e].result = "raised"
                        /\ \/ pc[e] # "idle"
                           \/ call[e].result # "running" /\ ncalls' # ncalls
          /\ (hvac_mode' # hvac_mode \/ last'.wrote) =>
                 /\ last'.publish = "none"
                 /\ ~last'.raised
                 /\ \E e \in ZoneIds :
                        /\ pc'[e] = "idle" /\ call'[e].result = "ok"
                        /\ hvac_mode'[e] = call'[e].req
                        /\ hvac_mode'[Other(e)] = hvac_mode[Other(e)]]_vars

C9_Witness ==
    \E e \in ZoneIds :
        /\ last.publish = "failed" /\ call[Other(e)].result = "none"
        /\ call[e].result = "raised" /\ Len(call[e].cmds) = 1
        /\ call[e].req = HEAT /\ hvac_mode[e] = OFF

(* C10 as stated: a Zones_State message whose payload is not "0", "1" or   *)
(* "2" raises and leaves the cached fields of the zone as they were.       *)
C10_PayloadOutsideWireValues ==
    [][(nstatus' # nstatus /\ last'.topic = Zones_State
            /\ last'.payload \notin {<<"0">>, <<"1">>, <<"2">>})
          => /\ last'.raised
             /\ UNCHANGED <<zone_state, operating_mode, hvac_mode>>]_vars

(* C10 amended: a Zones_State message whose payload int() does not parse   *)
(* to 0, 1 or 2 raises and leaves the cached fields as they were.          *)
C10_UnparsableZonePayload ==
    [][(nstatus' # nstatus /\ last'.topic = Zones_State
            /\ (int(last'.payload).err # ""
                    \/ int(last'.payload).val \notin {0, 1, 2}))
          => /\ last'.raised
             /\ UNCHANGED <<zone_state, operating_mode, hvac_mode>>]_vars

C10_Witness ==
    /\ last.topic = Zones_State /\ last.payload = <<"3">> /\ last.raised
    /\ \A e \in ZoneIds : zone_state[e] # {}

(* C13: a step that applies a well-formed Zones_State or                   *)
(* Operating_Mode_State message leaves the entity that handled it with     *)
(* _attr_hvac_mode HEAT exactly when its zone is in the cached ZoneSet and *)
(* Heat in the cached OperatingMode, and leaves the other entity alone.    *)
C13_StatusAuthoritative ==
    [][(nstatus' # nstatus /\ ~last'.raised) =>
          \E e \in ZoneIds :
              /\ hvac_mode'[e] = HEAT
                     <=> DerivedOn(zone_state'[e], operating_mode'[e], e)
              /\ zone_state'[Other(e)] = zone_state[Other(e)]
              /\ operating_mode'[Other(e)] = operating_mode[Other(e)]
              /\ hvac_mode'[Other(e)] = hvac_mode[Other(e)]]_vars

\* the request on of zone 1 has set HEAT optimistically; the status message
\* that follows takes it back, Heat being absent from the cached OperatingMode
C13_Witness ==
    /\ ncalls = 1 /\ nstatus = 1 /\ \A e \in ZoneIds : pc[e] = "idle"
    /\ latest[SetOperationMode] = <<"1">> /\ latest[SetZones] = <<"0">>
    /\ last.topic = Zones_State /\ ~last.raised
    /\ zone_state[1] = {ZONE1} /\ operating_mode[1] = {}
    /\ hvac_mode[1] = OFF

(* C17: a well-formed Zones_State message is applied whatever the cached   *)
(* OperatingMode is, replaces the cached ZoneSet of the entity that        *)
(* handles it and leaves every cached OperatingMode unchanged; a           *)
(* well-formed Operating_Mode_State message likewise replaces the cached   *)
(* OperatingMode alone.                                                    *)
C17_TopicsIndependent ==
    [][nstatus' # nstatus =>
          /\ last'.topic = Zones_State =>
                 /\ last'.raised <=> from_mqtt(last'.payload).err # ""
                 /\ operating_mode' = operating_mode
                 /\ ~last'.raised =>
                        \E e \in ZoneIds :
                            /\ zone_state'[e] = from_mqtt(last'.payload).val
                            /\ zone_state'[Other(e)] = zone_state[Other(e)]
          /\ last'.topic = Operating_Mode_State =>
                 /\ last'.raised <=>
                        OperatingMode_from_mqtt(last'.payload).err # ""
                 /\ zone_state' = zone_state
                 /\ ~last'.raised =>
                        \E e \in ZoneIds :
                            /\ operating_mode'[e] =
                                   OperatingMode_from_mqtt(last'.payload).val
                            /\ operating_mode'[Other(e)] =
                                   operating_mode[Other(e)]]_vars

\* zone 1 has applied an Operating_Mode_State message with its ZoneSet still
\* empty, zone 2 a Zones_State message with its OperatingMode still empty
C17_Witness ==
    /\ nstatus = 2 /\ ncalls = 0 /\ ~last.raised
    /\ operating_mode[1] = {HEAT_FLAG, DHW_FLAG} /\ zone_state[1] = {}
    /\ zone_state[2] = {ZONE1, ZONE2} /\ operating_mode[2] = {}

\* the OperatingMode a request req of zone z computes from cached (zs, om)
WithHeat(om, zs, z, req) ==
    IF req = HEAT THEN om \cup {HEAT_FLAG}
    ELSE IF WithZone(zs, z, req) = {} THEN om \ {HEAT_FLAG}
    ELSE om

(* C15: a step of a request hands a command to async_publish exactly when  *)
(* the test it has reached finds a difference: at the start, the computed  *)
(* OperatingMode against the cached one; otherwise, unless the zone-set    *)
(* command is already out, the computed ZoneSet against the cached one and *)
(* the empty set.  The command carries the computed value, and a zone-set  *)
(* command one of the payloads "0", "1", "2".                              *)
C15_EmissionRule ==
    [][CoroutineStep =>
          \E e \in ZoneIds :
              LET c == call'[e]
                  starting == pc[e] = "idle"
                  zs == WithZone(c.zs0, e, c.req)
                  om == WithHeat(c.om0, c.zs0, e, c.req)
                  om_due == starting /\ om # operating_mode[e]
                  zs_due == /\ ~om_due /\ pc[e] # "await_zs"
                            /\ zs # zone_state[e] /\ zs # {}
                  cmd == c.cmds[Len(c.cmds)]
              IN  /\ pc'[Other(e)] = pc[Other(e)]
                  /\ call'[Other(e)] = call[Other(e)]
                  /\ c.result # "none"
                  /\ starting => c.zs0 = zone_state[e] /\ c.om0 = operating_mode[e]
                  /\ (om_due \/ zs_due) <=> last'.publish # "none"
                  /\ last'.publish # "ok" =>
                         c.cmds = IF starting THEN <<>> ELSE call[e].cmds
                  /\ last'.publish = "ok" =>
                         /\ c.cmds = (IF starting THEN <<>> ELSE call[e].cmds)
                                         \o <<cmd>>
                         /\ latest'[cmd.topic] = cmd.payload
                         /\ om_due => /\ cmd.topic = SetOperationMode
                                      /\ cmd.modes = om
                         /\ zs_due => /\ cmd.topic = SetZones
                                      /\ cmd.zones = zs
                                      /\ cmd.payload \in {<<"0">>, <<"1">>, <<"2">>}
                                      /\ from_mqtt(cmd.payload).val = zs]_vars

\* one request has published both commands, the other, a request off with
\* nothing cached, none
C15_Witness ==
    \E e \in ZoneIds :
        /\ call[e].result = "ok"
        /\ Topics(call[e].cmds) = <<SetOperationMode, SetZones>>
        /\ call[e].cmds[2].payload = <<"2">>
        /\ call[Other(e)].result = "ok" /\ call[Other(e)].req = OFF
        /\ call[Other(e)].cmds = <<>> /\ call[Other(e)].zs0 = {}

(* C19: no step of async_set_hvac_mode, whether it publishes, fails or     *)
(* returns, changes a cached ZoneSet or OperatingMode; a cached ZoneSet    *)
(* changes only in a step applying a Zones_State message, a cached         *)
(* OperatingMode only in a step applying an Operating_Mode_State message.  *)
C19_RequestLeavesCacheAlone ==
    [][/\ CoroutineStep =>
              zone_state' = zone_state /\ operating_mode' = operating_mode
       /\ zone_state' # zone_state =>
              /\ nstatus' # nstatus
              /\ last'.topic = Zones_State /\ ~last'.raised
       /\ operating_mode' # operating_mode =>
              /\ nstatus' # nstatus
              /\ last'.topic = Operating_Mode_State /\ ~last'.raised]_vars

\* a request on has published both commands and returned: HEAT is written
\* optimistically, the two cached fields are still empty
C19_Witness ==
    \E e \in ZoneIds :
        /\ call[e].result = "ok" /\ call[e].req = HEAT
        /\ Len(call[e].cmds) = 2 /\ hvac_mode[e] = HEAT
        /\ zone_state[e] = {} /\ operating_mode[e] = {}
        /\ last.wrote /\ last.topic = ""

(* C20: a cached ZoneSet that is not empty stays not empty, and every      *)
(* change of a cached ZoneSet, which a well-formed Zones_State message     *)
(* alone makes, gives a set that is not empty.                             *)
C20_ZoneSetNeverEmptied ==
    [][/\ \A e \in ZoneIds :
              /\ zone_state[e] # {} => zone_state'[e] # {}
              /\ zone_state'[e] # zone_state[e] => zone_state'[e] # {}
       /\ (nstatus' # nstatus /\ last'.topic = Zones_State /\ ~last'.raised) =>
              \E e \in ZoneIds :
                  /\ zone_state'[e] # {}
                  /\ zone_state'[e] = from_mqtt(last'.payload).val]_vars

\* zone 1 alone was cached; a request off for zone 1 (computing the empty
\* set) and a malformed Zones_State message have left it cached
C20_Witness ==
    /\ zone_state[1] = {ZONE1}
    /\ call[1].result = "ok" /\ call[1].req = OFF /\ call[1].zs0 = {ZONE1}
    /\ last.topic = Zones_State /\ last.raised /\ last.payload = <<"3">>

-----------------------------------------------------------------------------
(* Properties of the setpoint side (PolicySpec).                           *)

\* the bounds the specification gives each policy
WithinBounds(policy, t) ==
    IF policy = DIRECT THEN 15 <= t /\ t <= 45 ELSE -5 <= t /\ t <= 5

(* C11: async_set_temperature with a value outside the bounds of the       *)
(* active policy raises and publishes no command; with a value inside them *)
(* it publishes one command carrying the value.                            *)
C11_SetpointBoundsEnforced ==
    LET c == set_temperature
    IN  c.result # "none" =>
            /\ ~WithinBounds(c.mode, c.temperature)
                   => c.result = "raised" /\ c.payload = <<>>
            /\ (WithinBounds(c.mode, c.temperature) /\ c.result = "ok")
                   => /\ c.topic = SetHeatRequestTemperature(c.zone)
                      /\ c.payload = str(c.temperature)

(* C12: every Heating_Mode message that mode_received applies writes the   *)
(* HA state (the change notification), also one naming the active mode.    *)
C12_EveryModeMessageNotifies ==
    (last.topic = Heating_Mode /\ ~last.raised) => last.wrote

(* C16: the advertised bounds of each entity are those of its active mode: *)
(* (15, 45, 1) under DIRECT and (-5, 5, 1) under COMPENSATION.             *)
C16_BoundsMatchPolicy ==
    \A e \in ZoneIds :
        /\ mode[e] \in ZoneClimateMode
        /\ <<min_temp[e], max_temp[e], target_temperature_step[e]>> =
               IF mode[e] = DIRECT THEN <<15, 45, 1>> ELSE <<-5, 5, 1>>

C16_Witness ==
    /\ last.topic = Heating_Mode /\ last.wrote
    /\ mode[1] = COMPENSATION /\ min_temp[1] = -5 /\ max_temp[1] = 5
    /\ mode[2] = DIRECT /\ min_temp[2] = 15 /\ max_temp[2] = 45
    /\ set_temperature.result = "ok" /\ set_temperature.mode = COMPENSATION

-----------------------------------------------------------------------------
(* Properties of the wire codec (CodecSpec).                               *)

(* C18: from_mqtt maps "0", "1", "2" to {ZONE1}, {ZONE2}, {ZONE1, ZONE2},  *)
(* to_mqtt of each gives the payload back, and from_id(1) with from_id(2)  *)
(* are two zones whose union encodes to "2".                               *)
C18_ZoneSetRoundTrip ==
    LET c == codec
    IN  /\ (c.via = "wire" /\ c.value \in {<<"0">>, <<"1">>, <<"2">>}) =>
               /\ c.zones = Return(CASE c.value = <<"0">> -> {ZONE1}
                                     [] c.value = <<"1">> -> {ZONE2}
                                     [] c.value = <<"2">> -> {ZONE1, ZONE2})
               /\ c.stage = "encoded" => c.wire = Return(c.value)
        /\ (c.via = "ids" /\ c.ids = {1, 2}) =>
               /\ Cardinality(c.zones.val) = 2
               /\ c.stage = "encoded" => c.wire = Return(<<"2">>)

C18_Witness ==
    /\ codec.stage = "encoded" /\ codec.via = "wire"
    /\ codec.value = <<"2">> /\ codec.wire = Return(<<"2">>)

-----------------------------------------------------------------------------
(* Properties of the entities with the heat pump (ApplianceSpec).          *)

(* C14: when the request made last, for zone z and value v, has returned   *)
(* normally, the heat pump has applied every command published, no request *)
(* is running, and a broadcast of each status topic has since reached the  *)
(* entity of z, the _attr_hvac_mode of that entity is v.                   *)
C14_EventualConfirmation ==
    (confirm.done /\ confirm.heard = StatusTopics)
        => hvac_mode[confirm.zone] = confirm.value

=============================================================================
